---- MODULE Spec2Model ----
(***************************************************************************)
(* A model of lib/Router.js of stateful-controller-browser-router: the     *)
(* client-side router that serialises state transitions of a front         *)
(* controller and keeps the browser history in step with them.             *)
(*                                                                         *)
(* One step of the model is one JavaScript job that runs to completion:    *)
(* a call of a public method, the popstate handler, the fulfilment         *)
(* callback of a transition's promise chain, its finally callback, or the  *)
(* continuation a caller attached to a returned promise.                   *)
(***************************************************************************)
EXTENDS Naturals, Sequences, FiniteSets, TLC

(* ------------------------------ bounds --------------------------------- *)

\* how many calls into the router (public methods and popstate events) a run makes
MaxCalls == 3

(* ------------------------------ values --------------------------------- *)

\* JavaScript null, and the `false` that _queue.fromHistory holds for a request
\* that does not come from the history
Null == "null"
NotFromHistory == "false"

\* the state lists of the application, as the tests use them: ['foo'], ['bar']
StateLists == {"foo", "bar"}

\* the errors a promise can reject with: the front controller's, and enterStates' own
ControllerError == "quux"
PendingError == "A previous state transition is still pending"

\* urlStateMap.toURL and urlStateMap.fromURL, as the tests define them
toURL(stateList) == "/" \o stateList

URLs == {toURL(l) : l \in StateLists}

fromURL(url) == CHOOSE l \in StateLists : toURL(l) = url

\* the tests' urlStateMap throws for every other list and every other url:
\* a list toURL throws for, a url fromURL throws for, and the error thrown
Unencodable == "qux"
Undecodable == "/qux"
CodecError == "Should not occur in this test case"
NoError == "none"

\* values of history.state and of a popstate event's state: null, an object
\* without the statefulControllerRouterUrl key, or a record of this router
NullState == [kind |-> "null", url |-> ""]
ForeignState == [kind |-> "foreign", url |-> ""]

_urlToHistoryState(url) == [kind |-> "own", url |-> url]

HistoryStates == {NullState, ForeignState} \cup {_urlToHistoryState(u) : u \in URLs}

\* `historyState && historyState.statefulControllerRouterUrl`
IsOwn(historyState) == historyState.kind = "own"

(* ------------------------------ state ---------------------------------- *)

VARIABLES
    router,     \* the fields of the Router object
    window,     \* the host: history.state, location, the popstate listener
    trans,      \* the promise chains of the transitions that have not ended
    inflight,   \* the transitions whose frontController.state() has not settled
    promises,   \* the promises handed out whose continuation has yet to run
    jobs,       \* promises that settled and whose continuation has yet to run
    last,       \* what the latest step was and what it did, in order
    ncalls      \* the calls made so far

vars == <<router, window, trans, inflight, promises, jobs, last, ncalls>>

EmptyQueue ==
    [hasEntry |-> FALSE, stateList |-> Null, fromHistory |-> NotFromHistory,
     upgrade |-> FALSE, push |-> FALSE, promise |-> 0]

\* no transition, no promise, no popstate event
NoTransition ==
    [kind |-> "none", stateList |-> Null, upgrade |-> FALSE, push |-> FALSE,
     fromHistory |-> NotFromHistory, future |-> 0, status |-> "none", wrote |-> "none",
     override |-> Null, before |-> Null, entered |-> Null]
NoEvent == [kind |-> "none", url |-> ""]
NoPromise == [state |-> "none", value |-> "none", callers |-> <<>>, queuedAtSettle |-> FALSE]

\* the least identifier that names none of the live objects in `used`
FreshId(used) == CHOOSE i \in 1..(Cardinality(used) + 1) :
                     i \notin used /\ \A j \in 1..(i - 1) : j \in used

Without(f, x) == [y \in DOMAIN f \ {x} |-> f[y]]

\* the world a handler runs in; handlers are functions from world to world.
\* A step ends with Commit: a settled promise nobody attached a continuation
\* to is of no further use
World ==
    [router |-> router, window |-> window, trans |-> trans, inflight |-> inflight,
     promises |-> promises, jobs |-> jobs, effects |-> <<>>, ret |-> 0,
     tr |-> NoTransition, promise |-> NoPromise, event |-> NoEvent,
     thrown |-> NoError]

Commit(w, op, stateList, t) ==
    /\ router' = w.router
    /\ window' = w.window
    /\ trans' = w.trans
    /\ inflight' = w.inflight
    /\ promises' = [p \in {q \in DOMAIN w.promises :
                                w.promises[q].state = "pending"
                                \/ w.promises[q].callers # <<>>} |-> w.promises[p]]
    /\ jobs' = w.jobs
    /\ last' = [op |-> op, stateList |-> stateList, t |-> t, ret |-> w.ret,
                effects |-> w.effects, tr |-> w.tr, promise |-> w.promise,
                event |-> w.event, thrown |-> w.thrown]

Effect(w, e) == [w EXCEPT !.effects = Append(@, e)]

\* `throw err`: the statements that follow in the function do not run
Throw(w, err) == [w EXCEPT !.thrown = err]

\* `this.emit(name, stateList, url, promise)`
Emit(w, name, stateList, arg, promise) ==
    Effect(w, [e |-> "emit", name |-> name, stateList |-> stateList, arg |-> arg,
               upgrade |-> FALSE, p |-> promise])

(* ------------------------------ promises ------------------------------- *)

\* a new pending promise; w.ret names it
NewPromise(w) ==
    LET p == FreshId(DOMAIN w.promises \cup {w.trans[t].future : t \in DOMAIN w.trans}
                     \cup {w.router.queue.promise})
    IN [w EXCEPT !.promises = @ @@ (p :> [state |-> "pending", value |-> "none",
                                          callers |-> <<>>, queuedAtSettle |-> FALSE]),
                 !.ret = p]

\* the caller of a public method keeps the promise the method returned, if it
\* returned one, and attaches a continuation to it
Bind(w, p, api, stateList) ==
    IF p \notin DOMAIN w.promises THEN w
    ELSE LET w1 == [w EXCEPT !.promises[p].callers =
                                 Append(@, [api |-> api, stateList |-> stateList])]
         IN IF w.promises[p].state # "pending" /\ w.promises[p].callers = <<>>
            THEN [w1 EXCEPT !.jobs = Append(@, p)]
            ELSE w1

\* a promise settles; the continuations attached to it run in a later job
Settle(w, p, state, value) ==
    Effect([w EXCEPT !.promises[p].state = state,
                     !.promises[p].value = value,
                     !.jobs = IF w.promises[p].callers # <<>> THEN Append(@, p) ELSE @],
           [e |-> "settle", name |-> state, stateList |-> Null, arg |-> value,
            upgrade |-> FALSE, p |-> p])

(* ------------------------------ Router --------------------------------- *)

\* get pending()
pending(r) == r.pendingTransitionPromise # 0

\* window.history.pushState / replaceState; the effect notes the
\* currentStateList the host finds on the router during the call
HistoryWrite(w, push, historyState, url) ==
    Effect([w EXCEPT !.window.state = historyState, !.window.location = url],
           [e |-> IF push THEN "pushState" ELSE "replaceState", name |-> historyState.kind,
            stateList |-> w.router.currentStateList, arg |-> url, upgrade |-> FALSE,
            p |-> 0])

\* Router.prototype._pushHistoryState; the url it returns is toURL(stateList)
_pushHistoryState(w, stateList, push) ==
    IF stateList \notin StateLists THEN Throw(w, CodecError)
    ELSE HistoryWrite(w, push, _urlToHistoryState(toURL(stateList)), toURL(stateList))

\* `this.frontController.state(stateList, upgrade)` followed by the chain built
\* on the promise it returns; the chain becomes _pendingTransitionPromise
StartTransition(w, kind, stateList, upgrade, push, fromHistory, future) ==
    LET t == FreshId(DOMAIN w.trans)
        w1 == Effect(w, [e |-> "state", name |-> kind, stateList |-> stateList,
                         arg |-> "", upgrade |-> upgrade, p |-> future])
    IN [w1 EXCEPT !.trans = @ @@ (t :> [kind |-> kind, stateList |-> stateList,
                                        upgrade |-> upgrade, push |-> push,
                                        fromHistory |-> fromHistory, future |-> future,
                                        status |-> "running", wrote |-> "none",
                                        override |-> Null,
                                        before |-> w.router.currentStateList,
                                        entered |-> Null]),
                  !.inflight = @ \cup {t},
                  !.router.pendingTransitionPromise = t]

\* _doQueuedTransition that empties the slot but for its promise
_doQueuedTransition_KeepsPromise(w) ==
    IF ~w.router.queue.hasEntry THEN w
    ELSE LET q == w.router.queue
         IN StartTransition([w EXCEPT !.router.queue =
                                          [EmptyQueue EXCEPT !.promise = q.promise]],
                            "queued", q.stateList, q.upgrade, q.push, q.fromHistory,
                            q.promise)

\* Router.prototype._doQueuedTransition, up to the construction of the chain
_doQueuedTransition(w) ==
    IF ~w.router.queue.hasEntry THEN w
    ELSE LET q == w.router.queue
         IN StartTransition([w EXCEPT !.router.queue = EmptyQueue],
                            "queued", q.stateList, q.upgrade, q.push, q.fromHistory,
                            q.promise)

\* _addToQueue that makes a new promise for every request
_addToQueue_FreshPromise(w, stateList, fromHistory, upgrade, push) ==
    LET w1 == [w EXCEPT !.router.queue.hasEntry = TRUE,
                        !.router.queue.stateList = stateList,
                        !.router.queue.fromHistory = fromHistory,
                        !.router.queue.upgrade = upgrade,
                        !.router.queue.push = push]
        w2 == NewPromise(w1)
    IN [w2 EXCEPT !.router.queue.promise = w2.ret]

\* _addToQueue that does not keep the upgrade flag
_addToQueue_DropsUpgrade(w, stateList, fromHistory, upgrade, push) ==
    LET w1 == [w EXCEPT !.router.queue.hasEntry = TRUE,
                        !.router.queue.stateList = stateList,
                        !.router.queue.fromHistory = fromHistory,
                        !.router.queue.upgrade = FALSE,
                        !.router.queue.push = push]
    IN IF w1.router.queue.promise = 0
       THEN LET w2 == NewPromise(w1)
            IN [w2 EXCEPT !.router.queue.promise = w2.ret]
       ELSE [w1 EXCEPT !.ret = w1.router.queue.promise]

\* _addToQueue that leaves the pinned url of a request it overwrites in place
_addToQueue_KeepsFromHistory(w, stateList, fromHistory, upgrade, push) ==
    LET w1 == [w EXCEPT !.router.queue.hasEntry = TRUE,
                        !.router.queue.stateList = stateList,
                        !.router.queue.fromHistory =
                            IF w.router.queue.hasEntry THEN @ ELSE fromHistory,
                        !.router.queue.upgrade = upgrade,
                        !.router.queue.push = push]
    IN IF w1.router.queue.promise = 0
       THEN LET w2 == NewPromise(w1)
            IN [w2 EXCEPT !.router.queue.promise = w2.ret]
       ELSE [w1 EXCEPT !.ret = w1.router.queue.promise]

\* Router.prototype._addToQueue
_addToQueue(w, stateList, fromHistory, upgrade, push) ==
    LET w1 == [w EXCEPT !.router.queue.hasEntry = TRUE,
                        !.router.queue.stateList = stateList,
                        !.router.queue.fromHistory = fromHistory,
                        !.router.queue.upgrade = upgrade,
                        !.router.queue.push = push]
    IN IF w1.router.queue.promise = 0
       THEN LET w2 == NewPromise(w1)
            IN [w2 EXCEPT !.router.queue.promise = w2.ret]
       ELSE [w1 EXCEPT !.ret = w1.router.queue.promise]

\* enterStates without the `if (this.pending) throw`
enterStates_NoPendingCheck(w, stateList, pushHistory) ==
    LET w1 == NewPromise(w)
    IN StartTransition(w1, "enter", stateList, FALSE, pushHistory, NotFromHistory, w1.ret)

\* enterStates that queues the request, as queueEnterStates does, before it throws
enterStates_QueuesWhenPending(w, stateList, pushHistory) ==
    IF pending(w.router)
    THEN LET w0 == _addToQueue(w, stateList, NotFromHistory, FALSE, pushHistory)
             w1 == NewPromise(w0)
         IN Settle(w1, w1.ret, "rejected", PendingError)
    ELSE LET w1 == NewPromise(w)
         IN StartTransition(w1, "enter", stateList, FALSE, pushHistory,
                            NotFromHistory, w1.ret)

\* enterStates that assigns currentStateList when it starts the transition
enterStates_AssignsEagerly(w, stateList, pushHistory) ==
    IF pending(w.router)
    THEN LET w1 == NewPromise(w)
         IN Settle(w1, w1.ret, "rejected", PendingError)
    ELSE LET w1 == NewPromise(w)
             w2 == StartTransition(w1, "enter", stateList, FALSE, pushHistory,
                                   NotFromHistory, w1.ret)
         IN [w2 EXCEPT !.router.currentStateList = stateList]

\* Router.prototype.enterStates
enterStates(w, stateList, pushHistory) ==
    IF pending(w.router)
    THEN LET w1 == NewPromise(w)
         IN Settle(w1, w1.ret, "rejected", PendingError)
    ELSE LET w1 == NewPromise(w)
         IN StartTransition(w1, "enter", stateList, FALSE, pushHistory,
                            NotFromHistory, w1.ret)

\* queueEnterStates that puts every request in the queue
queueEnterStates_AlwaysQueues(w, stateList, pushHistory) ==
    _addToQueue(w, stateList, NotFromHistory, FALSE, pushHistory)

\* Router.prototype.queueEnterStates
queueEnterStates(w, stateList, pushHistory) ==
    IF pending(w.router)
    THEN _addToQueue(w, stateList, NotFromHistory, FALSE, pushHistory)
    ELSE enterStates(w, stateList, pushHistory)

\* replaceStateList without the test of pending
replaceStateList_AppliesWhenPending(w, stateList) ==
    _pushHistoryState([w EXCEPT !.router.currentStateList = stateList], stateList, FALSE)

\* replaceStateList that adds a history entry when the router is idle
replaceStateList_Pushes(w, stateList) ==
    IF pending(w.router)
    THEN [w EXCEPT !.router.pendingReplace = stateList]
    ELSE _pushHistoryState([w EXCEPT !.router.currentStateList = stateList],
                           stateList, TRUE)

\* replaceStateList that, while a transition is pending, records the list and
\* also writes the history entry at once
replaceStateList_WritesWhenPending(w, stateList) ==
    IF pending(w.router)
    THEN _pushHistoryState([w EXCEPT !.router.pendingReplace = stateList],
                           stateList, FALSE)
    ELSE _pushHistoryState([w EXCEPT !.router.currentStateList = stateList],
                           stateList, FALSE)

\* Router.prototype.replaceStateList
replaceStateList(w, stateList) ==
    IF pending(w.router)
    THEN [w EXCEPT !.router.pendingReplace = stateList]
    ELSE _pushHistoryState([w EXCEPT !.router.currentStateList = stateList],
                           stateList, FALSE)

\* _saveStateAsInitial that builds the record from the location in every case
_saveStateAsInitial_FromLocation(w) ==
    [w EXCEPT !.router.initialHistoryState = _urlToHistoryState(w.window.location)]

\* Router.prototype._saveStateAsInitial
_saveStateAsInitial(w) ==
    IF IsOwn(w.window.state)
    THEN [w EXCEPT !.router.initialHistoryState = w.window.state]
    ELSE [w EXCEPT !.router.initialHistoryState = _urlToHistoryState(w.window.location)]

\* attachPopStateListener without `if (!this._initialHistoryState)`
attachPopStateListener_AlwaysCaptures(w) ==
    _saveStateAsInitial([w EXCEPT !.window.listening = TRUE])

\* Router.prototype.attachPopStateListener
attachPopStateListener(w) ==
    LET w1 == [w EXCEPT !.window.listening = TRUE]
    IN IF w1.router.initialHistoryState = NullState
       THEN _saveStateAsInitial(w1)
       ELSE w1

\* _handleHistoryState that emits its notification for a request it starts
\* and not for one it queues
_handleHistoryState_QuietWhenQueued(w, historyState, upgrade, event) ==
    IF ~IsOwn(historyState) THEN w
    ELSE LET url == historyState.url
             stateList == fromURL(url)
             w0 == Effect(w, [e |-> "fromURL", name |-> "", stateList |-> stateList,
                              arg |-> url, upgrade |-> FALSE, p |-> 0])
         IN IF pending(w0.router)
            THEN _addToQueue(w0, stateList, url, upgrade, FALSE)
            ELSE LET w1 == NewPromise(w0)
                     w2 == StartTransition(w1, "history", stateList, upgrade, FALSE,
                                           url, w1.ret)
                 IN Emit(w2, event, stateList, url, w2.ret)

\* _handleHistoryState that calls fromURL after it has queued a request made
\* while a transition is pending
_handleHistoryState_DecodesLate(w, historyState, upgrade, event) ==
    IF ~IsOwn(historyState) THEN w
    ELSE IF historyState.url \notin URLs
    THEN LET w0 == IF pending(w.router)
                   THEN _addToQueue(w, Null, historyState.url, upgrade, FALSE)
                   ELSE w
         IN Throw(Effect([w0 EXCEPT !.ret = 0],
                         [e |-> "fromURL", name |-> "", stateList |-> Null,
                          arg |-> historyState.url, upgrade |-> FALSE, p |-> 0]),
                  CodecError)
    ELSE LET url == historyState.url
             stateList == fromURL(url)
             w0 == Effect(w, [e |-> "fromURL", name |-> "", stateList |-> stateList,
                              arg |-> url, upgrade |-> FALSE, p |-> 0])
             w2 == IF pending(w0.router)
                   THEN _addToQueue(w0, stateList, url, upgrade, FALSE)
                   ELSE LET w1 == NewPromise(w0)
                        IN StartTransition(w1, "history", stateList, upgrade, FALSE,
                                           url, w1.ret)
         IN Emit(w2, event, stateList, url, w2.ret)

\* Router.prototype._handleHistoryState
_handleHistoryState(w, historyState, upgrade, event) ==
    IF ~IsOwn(historyState) THEN w
    ELSE IF historyState.url \notin URLs
    THEN Throw(Effect(w, [e |-> "fromURL", name |-> "", stateList |-> Null,
                          arg |-> historyState.url, upgrade |-> FALSE, p |-> 0]),
               CodecError)
    ELSE LET url == historyState.url
             stateList == fromURL(url)
             w0 == Effect(w, [e |-> "fromURL", name |-> "", stateList |-> stateList,
                              arg |-> url, upgrade |-> FALSE, p |-> 0])
             w2 == IF pending(w0.router)
                   THEN _addToQueue(w0, stateList, url, upgrade, FALSE)
                   ELSE LET w1 == NewPromise(w0)
                        IN StartTransition(w1, "history", stateList, upgrade, FALSE,
                                           url, w1.ret)
         IN Emit(w2, event, stateList, url, w2.ret)

\* upgradeInitialState that passes upgrade = false
upgradeInitialState_PassesFalse(w) ==
    LET w1 == _saveStateAsInitial(w)
    IN _handleHistoryState(w1, w1.router.initialHistoryState, FALSE, "upgradeInitialState")

\* upgradeInitialState that passes no event name: `if (event)` skips the emit
upgradeInitialState_NoEvent(w) ==
    LET w1 == _saveStateAsInitial(w)
        w2 == _handleHistoryState(w1, w1.router.initialHistoryState, TRUE,
                                  "upgradeInitialState")
    IN [w2 EXCEPT !.effects = SelectSeq(@, LAMBDA x : x.e # "emit")]

\* Router.prototype.upgradeInitialState
upgradeInitialState(w) ==
    LET w1 == _saveStateAsInitial(w)
    IN _handleHistoryState(w1, w1.router.initialHistoryState, TRUE, "upgradeInitialState")

\* _onpopstate without `|| this._initialHistoryState`
_onpopstate_NoFallback(w, eventState) ==
    _handleHistoryState(w, eventState, FALSE, "historyPopState")

\* _onpopstate that falls back to the initial record for every state without
\* the router's tag
_onpopstate_ForeignAsInitial(w, eventState) ==
    LET historyState == IF ~IsOwn(eventState)
                        THEN w.router.initialHistoryState
                        ELSE eventState
    IN _handleHistoryState(w, historyState, FALSE, "historyPopState")

\* Router.prototype._onpopstate
_onpopstate(w, eventState) ==
    LET historyState == IF eventState = NullState
                        THEN w.router.initialHistoryState
                        ELSE eventState
    IN _handleHistoryState(w, historyState, FALSE, "historyPopState")

(* ------------------- the callbacks of a transition's chain ------------- *)

\* the effect a history write leaves in w.effects, if the callback made one
WroteIn(w) ==
    IF \E i \in 1..Len(w.effects) : w.effects[i].e \in {"pushState", "replaceState"}
    THEN (CHOOSE x \in {w.effects[i].e : i \in 1..Len(w.effects)} :
              x \in {"pushState", "replaceState"})
    ELSE "none"

\* the fulfilment callback of enterStates with the emit placed before the
\* history write
enterStatesFulfilled_EmitsFirst(w, t) ==
    LET tr == w.trans[t]
        current == IF w.router.pendingReplace # Null
                   THEN w.router.pendingReplace ELSE tr.stateList
        w1 == [w EXCEPT !.router.currentStateList = current]
        w2 == Emit(w1, "transitionComplete", tr.stateList, toURL(current), 0)
    IN _pushHistoryState(w2, current, tr.push)

\* the fulfilment callback of enterStates with
\* `this._pushHistoryState(stateList, push)`: the write is made for the list
\* asked for
enterStatesFulfilled_WritesRequested(w, t) ==
    LET tr == w.trans[t]
        current == IF w.router.pendingReplace # Null
                   THEN w.router.pendingReplace ELSE tr.stateList
        w1 == [w EXCEPT !.router.currentStateList = current]
        w2 == _pushHistoryState(w1, tr.stateList, tr.push)
    IN IF w2.thrown # NoError THEN w2
       ELSE Emit(w2, "transitionComplete", tr.stateList, toURL(tr.stateList), 0)

\* `.then(function() {...})` of enterStates
enterStatesFulfilled(w, t) ==
    LET tr == w.trans[t]
        current == IF w.router.pendingReplace # Null
                   THEN w.router.pendingReplace ELSE tr.stateList
        w1 == [w EXCEPT !.router.currentStateList = current]
        w2 == _pushHistoryState(w1, current, tr.push)
    IN IF w2.thrown # NoError THEN w2
       ELSE Emit(w2, "transitionComplete", tr.stateList, toURL(current), 0)

\* the finally callback of enterStates without its _doQueuedTransition()
enterStatesFinally_NoDrain(w, t) ==
    [w EXCEPT !.router.pendingReplace = Null, !.router.pendingTransitionPromise = 0]

\* `.finally(function() {...})` of enterStates
enterStatesFinally(w, t) ==
    _doQueuedTransition([w EXCEPT !.router.pendingReplace = Null,
                                  !.router.pendingTransitionPromise = 0])

\* the fulfilment callback of _handleHistoryState with a _doQueuedTransition()
\* at its end
handleHistoryStateFulfilled_Drains(w, t) ==
    LET tr == w.trans[t]
        w1 == [w EXCEPT !.router.currentStateList = tr.stateList]
    IN _doQueuedTransition(Emit(w1, "transitionComplete", tr.stateList, tr.fromHistory, 0))

\* `.then(function() {...})` of _handleHistoryState
handleHistoryStateFulfilled(w, t) ==
    LET tr == w.trans[t]
        w1 == [w EXCEPT !.router.currentStateList = tr.stateList]
    IN Emit(w1, "transitionComplete", tr.stateList, tr.fromHistory, 0)

\* the finally callback of _handleHistoryState without its _doQueuedTransition()
handleHistoryStateFinally_NoDrain(w, t) ==
    [w EXCEPT !.router.pendingTransitionPromise = 0]

\* the finally callback of _handleHistoryState, had the assignment of
\* currentStateList been placed in it
handleHistoryStateFinally_SetsCurrent(w, t) ==
    _doQueuedTransition([w EXCEPT !.router.pendingTransitionPromise = 0,
                                  !.router.currentStateList = w.trans[t].stateList])

\* the finally callback of _handleHistoryState without
\* `this._pendingTransitionPromise = null`
handleHistoryStateFinally_KeepsPending(w, t) ==
    _doQueuedTransition(w)

\* `.finally(function() {...})` of _handleHistoryState
handleHistoryStateFinally(w, t) ==
    _doQueuedTransition([w EXCEPT !.router.pendingTransitionPromise = 0])

\* the fulfilment callback of _doQueuedTransition without its history write
doQueuedTransitionFulfilled_NoWrite(w, t) ==
    LET tr == w.trans[t]
        current == IF w.router.pendingReplace # Null
                   THEN w.router.pendingReplace ELSE tr.stateList
        w1 == [w EXCEPT !.router.currentStateList = current]
    IN IF tr.fromHistory = NotFromHistory
       THEN Emit(w1, "transitionComplete", tr.stateList, toURL(current), 0)
       ELSE Emit(w1, "transitionComplete", tr.stateList, tr.fromHistory, 0)

\* the fulfilment callback of _doQueuedTransition without the test of
\* fromHistory: it writes history for every queued request
doQueuedTransitionFulfilled_AlwaysWrites(w, t) ==
    LET tr == w.trans[t]
        current == IF w.router.pendingReplace # Null
                   THEN w.router.pendingReplace ELSE tr.stateList
        w1 == [w EXCEPT !.router.currentStateList = current]
    IN Emit(_pushHistoryState(w1, current, tr.push),
            "transitionComplete", tr.stateList, toURL(current), 0)

\* the fulfilment callback of _doQueuedTransition with
\* `this.emit('transitionComplete', this.currentStateList, url)`
doQueuedTransitionFulfilled_EmitsCurrent(w, t) ==
    LET tr == w.trans[t]
        current == IF w.router.pendingReplace # Null
                   THEN w.router.pendingReplace ELSE tr.stateList
        w1 == [w EXCEPT !.router.currentStateList = current]
        w2 == _pushHistoryState(w1, current, tr.push)
    IN IF tr.fromHistory = NotFromHistory
       THEN IF w2.thrown # NoError THEN w2
            ELSE Emit(w2, "transitionComplete", current, toURL(current), 0)
       ELSE Emit(w1, "transitionComplete", current, tr.fromHistory, 0)

\* `.then(function() {...})` of _doQueuedTransition
doQueuedTransitionFulfilled(w, t) ==
    LET tr == w.trans[t]
        current == IF w.router.pendingReplace # Null
                   THEN w.router.pendingReplace ELSE tr.stateList
        w1 == [w EXCEPT !.router.currentStateList = current]
        w2 == _pushHistoryState(w1, current, tr.push)
    IN IF tr.fromHistory = NotFromHistory
       THEN IF w2.thrown # NoError THEN w2
            ELSE Emit(w2, "transitionComplete", tr.stateList, toURL(current), 0)
       ELSE Emit(w1, "transitionComplete", tr.stateList, tr.fromHistory, 0)

\* the finally callback of _doQueuedTransition, had the assignment of
\* currentStateList been placed in it
doQueuedTransitionFinally_SetsCurrent(w, t) ==
    _doQueuedTransition([w EXCEPT !.router.pendingTransitionPromise = 0,
                                  !.router.pendingReplace = Null,
                                  !.router.currentStateList = w.trans[t].stateList])

\* the finally callback of _doQueuedTransition without its
\* _doQueuedTransition()
doQueuedTransitionFinally_NoDrain(w, t) ==
    [w EXCEPT !.router.pendingTransitionPromise = 0, !.router.pendingReplace = Null]

\* `.finally(function() {...})` of _doQueuedTransition
doQueuedTransitionFinally(w, t) ==
    _doQueuedTransition([w EXCEPT !.router.pendingTransitionPromise = 0,
                                  !.router.pendingReplace = Null])

\* the fulfilment callback of the chain of transition t
Fulfilled(w, t) ==
    LET w1 == CASE w.trans[t].kind = "enter" -> enterStatesFulfilled(w, t)
                [] w.trans[t].kind = "history" -> handleHistoryStateFulfilled(w, t)
                [] OTHER -> doQueuedTransitionFulfilled(w, t)
        w2 == [w1 EXCEPT !.trans[t].status = IF w1.thrown # NoError THEN "threw"
                                              ELSE "fulfilled",
                         !.trans[t].wrote = WroteIn(w1),
                         !.trans[t].entered = w1.router.currentStateList]
    IN [w2 EXCEPT !.tr = w2.trans[t]]

\* the finally callback of the chain of transition t
Finally(w, t) ==
    CASE w.trans[t].kind = "enter" -> enterStatesFinally(w, t)
      [] w.trans[t].kind = "history" -> handleHistoryStateFinally(w, t)
      [] OTHER -> doQueuedTransitionFinally(w, t)

\* the end of the chain with `.then(resolve)` in the place of
\* `.then(resolve, reject)`: the rejection of a queued transition does not
\* reach the promise _addToQueue handed out
ChainSettles_ResolveOnly(w, t, state, value, queued) ==
    IF state = "rejected" /\ w.trans[t].kind = "queued"
    THEN [w EXCEPT !.trans = Without(@, t),
                   !.tr = [w.trans[t] EXCEPT !.status = "failed"],
                   !.promises[w.trans[t].future].queuedAtSettle = queued]
    ELSE Settle([w EXCEPT !.trans = Without(@, t),
                          !.tr = [w.trans[t] EXCEPT
                                     !.status = IF state = "resolved" THEN "done"
                                                ELSE "failed"],
                          !.promises[w.trans[t].future].queuedAtSettle = queued],
                w.trans[t].future, state, value)

\* the end of the chain: `.return(null)`, and for a queued transition
\* `.then(resolve, reject)` on the promise _addToQueue handed out. `queued`
\* notes on the promise whether a request was waiting when the finally
\* callback began
ChainSettles(w, t, state, value, queued) ==
    Settle([w EXCEPT !.trans = Without(@, t),
                     !.tr = [w.trans[t] EXCEPT
                                !.status = IF state = "resolved" THEN "done" ELSE "failed"],
                     !.promises[w.trans[t].future].queuedAtSettle = queued],
           w.trans[t].future, state, value)

Init ==
    /\ router = [currentStateList |-> Null, pendingTransitionPromise |-> 0,
                 pendingReplace |-> Null, initialHistoryState |-> NullState,
                 queue |-> EmptyQueue]
    /\ window = [state |-> NullState, location |-> "/foo", listening |-> FALSE]
    /\ trans = <<>>
    /\ inflight = {}
    /\ promises = <<>>
    /\ jobs = <<>>
    /\ last = [op |-> "new", stateList |-> Null, t |-> 0, ret |-> 0, effects |-> <<>>,
               tr |-> NoTransition, promise |-> NoPromise, event |-> NoEvent,
               thrown |-> NoError]
    /\ ncalls = 0

CallEnterStates(stateList, pushHistory) ==
    /\ ncalls < MaxCalls
    /\ ncalls' = ncalls + 1
    /\ LET w == enterStates(World, stateList, pushHistory)
       IN Commit(Bind(w, w.ret, "enterStates", stateList), "enterStates", stateList, 0)

CallQueueEnterStates(stateList, pushHistory) ==
    /\ ncalls < MaxCalls
    /\ ncalls' = ncalls + 1
    /\ LET w == queueEnterStates(World, stateList, pushHistory)
       IN Commit(Bind(w, w.ret, "queueEnterStates", stateList),
                 "queueEnterStates", stateList, 0)

\* the call also notes, on the transition whose controller operation is in
\* flight, the list that was passed
CallReplaceStateList(stateList) ==
    /\ ncalls < MaxCalls
    /\ ncalls' = ncalls + 1
    /\ LET w == replaceStateList(World, stateList)
       IN Commit([w EXCEPT !.trans = [t \in DOMAIN w.trans |->
                                         IF t \in w.inflight
                                         THEN [w.trans[t] EXCEPT !.override = stateList]
                                         ELSE w.trans[t]]],
                 "replaceStateList", stateList, 0)

CallUpgradeInitialState ==
    /\ ncalls < MaxCalls
    /\ ncalls' = ncalls + 1
    /\ LET w == upgradeInitialState(World)
           stateList == IF w.router.initialHistoryState.url \in URLs
                        THEN fromURL(w.router.initialHistoryState.url) ELSE Null
       IN Commit(Bind(w, w.ret, "upgradeInitialState", stateList),
                 "upgradeInitialState", stateList, 0)

\* attaching twice adds nothing (addEventListener ignores a listener it has)
CallAttachPopStateListener ==
    /\ ~window.listening
    /\ UNCHANGED ncalls
    /\ Commit(attachPopStateListener(World), "attachPopStateListener", Null, 0)

\* no job of the page is running or waiting to run: the host can deliver an
\* event, and the front controller's operation can settle
HostTurn ==
    /\ jobs = <<>>
    /\ \A t \in DOMAIN trans : trans[t].status \notin {"fulfilled", "threw"}

\* the list a popstate event asks for, if it asks for one
PopStateList(eventState) ==
    LET historyState == IF eventState = NullState THEN router.initialHistoryState
                        ELSE eventState
    IN IF IsOwn(historyState) /\ historyState.url \in URLs
       THEN fromURL(historyState.url) ELSE Null

\* the host fires popstate; the listeners of historyPopState receive the
\* promise of the transition
PopState(eventState) ==
    /\ ncalls < MaxCalls
    /\ window.listening
    /\ HostTurn
    /\ ncalls' = ncalls + 1
    /\ LET w == _onpopstate([World EXCEPT !.event = eventState], eventState)
       IN Commit(Bind(w, w.ret, "popstate", PopStateList(eventState)),
                 "popstate", PopStateList(eventState), 0)

\* the front controller's operation of transition t succeeds
ControllerResolves(t) ==
    /\ t \in inflight
    /\ HostTurn
    /\ Commit(Fulfilled([World EXCEPT !.inflight = @ \ {t}], t), "fulfilled", Null, t)
    /\ UNCHANGED ncalls

\* the finally callback of a transition whose fulfilment callback has run,
\* and the end of its chain: the chain resolves to null, or rejects with what
\* the fulfilment callback threw
TransitionFinally(t) ==
    /\ t \in DOMAIN trans
    /\ trans[t].status \in {"fulfilled", "threw"}
    /\ IF trans[t].status = "fulfilled"
       THEN Commit(ChainSettles(Finally(World, t), t, "resolved", Null,
                                router.queue.hasEntry),
                   "finally", Null, t)
       ELSE Commit(ChainSettles(Finally(World, t), t, "rejected", CodecError,
                                router.queue.hasEntry),
                   "finally", Null, t)
    /\ UNCHANGED ncalls

\* the front controller's operation of transition t fails: the fulfilment
\* callback is skipped, the finally callback runs and the chain rejects
ControllerRejects(t) ==
    /\ t \in inflight
    /\ HostTurn
    /\ Commit(ChainSettles(Finally([World EXCEPT !.inflight = @ \ {t}], t), t,
                           "rejected", ControllerError, router.queue.hasEntry),
              "rejected", Null, t)
    /\ UNCHANGED ncalls

\* the continuation the callers attached to a settled promise runs
Observe ==
    /\ jobs # <<>>
    /\ Commit([World EXCEPT !.jobs = Tail(@), !.ret = Head(jobs),
                             !.promise = promises[Head(jobs)],
                             !.promises = Without(@, Head(jobs))],
              "observe", Null, 0)
    /\ UNCHANGED ncalls

Next ==
    \/ \E l \in StateLists, push \in BOOLEAN : CallEnterStates(l, push)
    \/ \E l \in StateLists, push \in BOOLEAN : CallQueueEnterStates(l, push)
    \/ \E l \in StateLists : CallReplaceStateList(l)
    \/ CallUpgradeInitialState
    \/ CallAttachPopStateListener
    \/ \E s \in HistoryStates : PopState(s)
    \/ \E t \in inflight : ControllerResolves(t)
    \/ \E t \in DOMAIN trans : TransitionFinally(t)
    \/ \E t \in inflight : ControllerRejects(t)
    \/ Observe

Spec == Init /\ [][Next]_vars

\* the router constructed in a page whose history.state and location are
\* whatever the host left there: no state, a state of another script, or a
\* record of the router from an earlier page load
InitHost ==
    /\ router = [currentStateList |-> Null, pendingTransitionPromise |-> 0,
                 pendingReplace |-> Null, initialHistoryState |-> NullState,
                 queue |-> EmptyQueue]
    /\ window \in {[state |-> h, location |-> "/foo", listening |-> FALSE] :
                      h \in HistoryStates}
    /\ trans = <<>>
    /\ inflight = {}
    /\ promises = <<>>
    /\ jobs = <<>>
    /\ last = [op |-> "new", stateList |-> Null, t |-> 0, ret |-> 0, effects |-> <<>>,
               tr |-> NoTransition, promise |-> NoPromise, event |-> NoEvent,
               thrown |-> NoError]
    /\ ncalls = 0

SpecHost == InitHost /\ [][Next]_vars

\* the router with an urlStateMap that throws: the page also asks for a list
\* toURL throws for, and the location or the record of a popstate event can
\* hold a url fromURL throws for
CodecLists == {"foo", Unencodable}
CodecStates == {NullState, _urlToHistoryState("/foo"), _urlToHistoryState(Undecodable)}

InitCodec ==
    /\ router = [currentStateList |-> Null, pendingTransitionPromise |-> 0,
                 pendingReplace |-> Null, initialHistoryState |-> NullState,
                 queue |-> EmptyQueue]
    /\ window \in {[state |-> NullState, location |-> u, listening |-> FALSE] :
                      u \in {"/foo", Undecodable}}
    /\ trans = <<>>
    /\ inflight = {}
    /\ promises = <<>>
    /\ jobs = <<>>
    /\ last = [op |-> "new", stateList |-> Null, t |-> 0, ret |-> 0, effects |-> <<>>,
               tr |-> NoTransition, promise |-> NoPromise, event |-> NoEvent,
               thrown |-> NoError]
    /\ ncalls = 0

NextCodec ==
    \/ \E l \in CodecLists, push \in BOOLEAN : CallEnterStates(l, push)
    \/ \E l \in CodecLists, push \in BOOLEAN : CallQueueEnterStates(l, push)
    \/ \E l \in CodecLists : CallReplaceStateList(l)
    \/ CallUpgradeInitialState
    \/ CallAttachPopStateListener
    \/ \E s \in CodecStates : PopState(s)
    \/ \E t \in inflight : ControllerResolves(t)
    \/ \E t \in DOMAIN trans : TransitionFinally(t)
    \/ \E t \in inflight : ControllerRejects(t)
    \/ Observe

SpecCodec == InitCodec /\ [][NextCodec]_vars

\* a controller operation can settle, and a finally callback can run: what
\* ENABLED says of the two actions below, written out from their guards
SettlementEnabled == inflight # {} /\ HostTurn
FinallyEnabled == \E t \in DOMAIN trans : trans[t].status \in {"fulfilled", "threw"}

\* the router in a page whose jobs run: a continuation that waits as a promise
\* job is run, the finally callback of a chain follows its fulfilment
\* callback, and the front controller settles every operation it was given.
\* Each conjunct is weak fairness of the action; the last two spell WF_vars
\* out with the guards in the place of ENABLED. The page makes MaxCalls calls
\* at most
Fairness ==
    /\ WF_vars(Observe)
    /\ \/ []<>(~FinallyEnabled)
       \/ []<><<\E t \in DOMAIN trans : TransitionFinally(t)>>_vars
    /\ \/ []<>(~SettlementEnabled)
       \/ []<><<\E t \in inflight : ControllerResolves(t) \/ ControllerRejects(t)>>_vars

SpecFair == Init /\ [][Next]_vars /\ Fairness

(* ------------------------------ properties ----------------------------- *)

\* the positions in the latest step's effects of the controller invocations,
\* of the history writes, and of the notifications of a given name
Starts == {i \in 1..Len(last.effects) : last.effects[i].e = "state"}
Writes == {i \in 1..Len(last.effects) : last.effects[i].e \in {"pushState", "replaceState"}}
Settles == {i \in 1..Len(last.effects) : last.effects[i].e = "settle"}
Emits(name) == {i \in 1..Len(last.effects) :
                   last.effects[i].e = "emit" /\ last.effects[i].name = name}

\* a transition asked for through enterStates or queueEnterStates
IsApi(tr) == tr.kind = "enter" \/ (tr.kind = "queued" /\ tr.fromHistory = NotFromHistory)

\* a transition asked for by a popstate event
IsPopState(tr) ==
    /\ ~tr.upgrade
    /\ tr.kind = "history" \/ (tr.kind = "queued" /\ tr.fromHistory # NotFromHistory)

\* C1: at most one operation of the front controller is in flight in every
\* reachable state, and a step that starts one starts exactly one and leaves it
\* the only one in flight.
C1_AtMostOneInFlight ==
    /\ Cardinality(inflight) <= 1
    /\ Cardinality(Starts) <= 1
    /\ Starts # {} => inflight = {router.pendingTransitionPromise}

\* a transition is in flight, a second request waits in the queue, and a third
\* call has just been refused
C1_Witness ==
    /\ Cardinality(inflight) = 1
    /\ router.queue.hasEntry
    /\ last.op = "enterStates"
    /\ Starts = {}

\* C2: a call of enterStates made while pending is true returns a promise
\* rejected with 'A previous state transition is still pending', does not invoke
\* the front controller, writes no history, emits nothing, and leaves the router
\* (currentStateList, queue, _pendingReplace, _pendingTransitionPromise), the
\* host and the transition in flight as they were.
C2_EnterStatesWhilePendingRejects ==
    [][(last'.op = "enterStates" /\ pending(router)) =>
          /\ router' = router
          /\ window' = window
          /\ trans' = trans
          /\ inflight' = inflight
          /\ last'.ret \notin DOMAIN promises
          /\ last'.ret \in DOMAIN promises'
          /\ promises'[last'.ret].state = "rejected"
          /\ promises'[last'.ret].value = PendingError
          /\ \A p \in DOMAIN promises : p \in DOMAIN promises' /\ promises'[p] = promises[p]
          /\ \A i \in 1..Len(last'.effects) : last'.effects[i].e = "settle"]_vars

\* enterStates has been refused while a transition was in flight and a request
\* waited in the queue
C2_Witness ==
    /\ last.op = "enterStates"
    /\ last.ret \in DOMAIN promises
    /\ promises[last.ret].value = PendingError
    /\ router.queue.hasEntry
    /\ inflight # {}

\* C3: every caller whose request went into the queue slot holds the one
\* promise of that slot; the front controller is invoked for the slot once, when
\* the running transition has ended, with the list of the latest request only;
\* and that promise settles with the outcome of that one transition.
C3_QueueCoalescing ==
    /\ \A p \in DOMAIN promises :
          (promises[p].state = "pending" /\ promises[p].callers # <<>>) =>
             \/ router.queue.hasEntry /\ router.queue.promise = p
             \/ \E t \in DOMAIN trans : trans[t].future = p
    /\ router.queue.hasEntry =>
          /\ router.queue.promise \in DOMAIN promises
          /\ promises[router.queue.promise].state = "pending"
          /\ promises[router.queue.promise].callers # <<>>
          /\ LET callers == promises[router.queue.promise].callers
             IN callers[Len(callers)].stateList = router.queue.stateList
          /\ \A t \in DOMAIN trans : trans[t].future # router.queue.promise
    /\ \A i \in Starts :
          last.effects[i].name = "queued" =>
             /\ last.op \in {"finally", "rejected"}
             /\ last.effects[i].p \in DOMAIN promises
             /\ LET callers == promises[last.effects[i].p].callers
                IN /\ callers # <<>>
                   /\ last.effects[i].stateList = callers[Len(callers)].stateList
    /\ (last.op \in {"finally", "rejected"} /\ last.tr.kind = "queued") =>
          /\ last.tr.future \in DOMAIN promises
          /\ LET promise == promises[last.tr.future]
             IN /\ promise.state = IF last.op = "finally" THEN "resolved" ELSE "rejected"
                /\ promise.value = IF last.op = "finally" THEN Null ELSE ControllerError
                /\ promise.callers[Len(promise.callers)].stateList = last.tr.stateList

\* a queued transition has ended whose promise two callers hold, the first of
\* whom had asked for another list than the one that was entered
C3_Witness ==
    /\ last.op \in {"finally", "rejected"}
    /\ last.tr.kind = "queued"
    /\ last.tr.future \in DOMAIN promises
    /\ Len(promises[last.tr.future].callers) = 2
    /\ promises[last.tr.future].callers[1].api = "queueEnterStates"
    /\ promises[last.tr.future].callers[2].api = "queueEnterStates"
    /\ promises[last.tr.future].callers[1].stateList # last.tr.stateList

\* C4: the history write of a transition asked for through enterStates or
\* queueEnterStates is made by the fulfilment callback of its chain: never while
\* an operation of the front controller is in flight, always before the promise
\* of its callers resolves, which happens in the later finally step only.
C4_HistoryWriteOrdering ==
    /\ \A t \in DOMAIN trans :
          IsApi(trans[t]) =>
             /\ t \in inflight => trans[t].status = "running" /\ trans[t].wrote = "none"
             /\ trans[t].status = "fulfilled" =>
                   /\ trans[t].wrote = IF trans[t].push THEN "pushState" ELSE "replaceState"
                   /\ trans[t].future \in DOMAIN promises
                   /\ promises[trans[t].future].state = "pending"
    /\ Writes # {} => inflight = {} /\ last.op \in {"fulfilled", "replaceStateList"}
    /\ (last.op = "finally" /\ IsApi(last.tr)) =>
          /\ last.tr.wrote # "none"
          /\ Writes = {}
    /\ \A i \in Settles :
          last.effects[i].name = "resolved" =>
             last.op = "finally" /\ last.effects[i].p = last.tr.future

\* a transition run from the queue for queueEnterStates has resolved after its
\* pushState
C4_Witness ==
    /\ last.op = "finally"
    /\ last.tr.kind = "queued"
    /\ IsApi(last.tr)
    /\ last.tr.wrote = "pushState"
    /\ \E i \in Settles : last.effects[i].name = "resolved"

\* C5: when the operation of the front controller rejects, whatever the origin
\* of the transition, currentStateList is what it was when the transition
\* started, no pushState or replaceState is made for it, and the promise of its
\* callers rejects with the controller's error.
C5_FailureLeavesStateAndHistory ==
    last.op = "rejected" =>
       /\ router.currentStateList = last.tr.before
       /\ Writes = {}
       /\ last.tr.wrote = "none"
       /\ \E i \in Settles :
             /\ last.effects[i].p = last.tr.future
             /\ last.effects[i].name = "rejected"
             /\ last.effects[i].arg = ControllerError
       /\ \A i \in Settles : last.effects[i].name = "rejected"
       /\ last.tr.future \in DOMAIN promises =>
             /\ promises[last.tr.future].state = "rejected"
             /\ promises[last.tr.future].value = ControllerError

\* a transition run from the queue has failed after an earlier one had set
\* currentStateList
C5_Witness ==
    /\ last.op = "rejected"
    /\ last.tr.kind = "queued"
    /\ last.tr.before # Null
    /\ last.tr.before # last.tr.stateList
    /\ last.tr.future \in DOMAIN promises

\* C6: when the operation of the running transition rejects while a request
\* waits in the queue, the same step takes the request out of the queue and
\* invokes the front controller for it; and pending is true when the callers of
\* the failed transition see its rejection.
C6_FailureStillDrainsQueue ==
    /\ [][(last'.op = "rejected" /\ router.queue.hasEntry) =>
             /\ ~router'.queue.hasEntry
             /\ pending(router')
             /\ router'.pendingTransitionPromise \in inflight'
             /\ router'.pendingTransitionPromise \in DOMAIN trans'
             /\ LET tr == trans'[router'.pendingTransitionPromise]
                IN /\ tr.stateList = router.queue.stateList
                   /\ tr.future = router.queue.promise
                   /\ tr.status = "running"]_vars
    /\ [](( /\ last.op = "observe"
            /\ last.promise.state = "rejected"
            /\ last.promise.value = ControllerError
            /\ last.promise.queuedAtSettle) => pending(router))

\* the caller of a transition that failed while a request waited sees the
\* rejection
C6_Witness ==
    /\ last.op = "observe"
    /\ last.promise.state = "rejected"
    /\ last.promise.value = ControllerError
    /\ last.promise.queuedAtSettle
    /\ inflight # {}

\* C7: a replaceStateList(X) made while the controller operation of a
\* transition is in flight makes currentStateList X when the transition
\* succeeds, and the history write of the transition, if it makes one, is of
\* toURL(X); for a transition of any origin.
C7_ReplaceAppliedAtSettlement ==
    (last.op = "fulfilled" /\ last.tr.override # Null) =>
       /\ router.currentStateList = last.tr.override
       /\ \A i \in Writes : last.effects[i].arg = toURL(last.tr.override)

\* C8: a step in which the operation of the front controller rejects emits
\* transitionFailed once, with the list of the transition and the error, before
\* the promise of the callers rejects.
C8_TransitionFailedEmitted ==
    last.op = "rejected" =>
       /\ Cardinality(Emits("transitionFailed")) = 1
       /\ \A i \in Emits("transitionFailed") :
             /\ last.effects[i].stateList = last.tr.stateList
             /\ last.effects[i].arg = ControllerError
             /\ \A j \in Settles : i < j

\* C9: historyPopStateFailed is emitted, after transitionFailed, in the steps in
\* which a transition that a popstate event asked for fails, and in no other.
C9_HistoryPopStateFailedEmitted ==
    /\ Emits("historyPopStateFailed") # {} => last.op = "rejected" /\ IsPopState(last.tr)
    /\ (last.op = "rejected" /\ IsPopState(last.tr)) =>
          /\ Cardinality(Emits("historyPopStateFailed")) = 1
          /\ \A i \in Emits("historyPopStateFailed") :
                /\ last.effects[i].stateList = last.tr.stateList
                /\ last.effects[i].arg = ControllerError
                /\ \E j \in Emits("transitionFailed") : j < i

\* C10: when a request waited in the queue as the running transition ended,
\* then at the time the callers of the ended transition see its outcome pending
\* is true, and the transition taken from the queue has its controller
\* operation in flight.
C10_NoIdleGapAtObservation ==
    (last.op = "observe" /\ last.promise.queuedAtSettle) =>
       /\ pending(router)
       /\ router.pendingTransitionPromise \in inflight
       /\ trans[router.pendingTransitionPromise].kind = "queued"
       /\ trans[router.pendingTransitionPromise].status = "running"

\* the caller of a transition that succeeded while a request waited sees it
\* resolve
C10_Witness ==
    /\ last.op = "observe"
    /\ last.promise.state = "resolved"
    /\ last.promise.queuedAtSettle
    /\ router.currentStateList # Null

\* C11: when transitionComplete or transitionFailed is emitted, pending is
\* false unless a request waits in the queue; with a request in the queue
\* pending is true, and the front controller is invoked for that request only
\* after the notification.
C11_PendingAtNotification ==
    \A i \in Emits("transitionComplete") \cup Emits("transitionFailed") :
        /\ pending(router) <=> router.queue.hasEntry
        /\ \A j \in Starts : i < j

C13_CurrentIsEnteredList ==
    /\ \A t \in inflight : router.currentStateList = trans[t].before
    /\ last.op = "fulfilled" =>
          /\ Emits("transitionComplete") # {}
          /\ router.currentStateList = last.tr.stateList
    /\ \A t \in DOMAIN trans :
          trans[t].status = "fulfilled" => router.currentStateList = trans[t].stateList

\* C13, amended: currentStateList is the list that was current before the
\* transition for as long as the front controller's operation is in flight;
\* from its transitionComplete on, and until a later transition or an idle
\* replaceStateList, it is the list the fulfilment callback assigned: the
\* list of the replaceStateList on record at that moment if the transition
\* was started by enterStates or from the queue, and the entered list
\* otherwise.
C13_CurrentDuringAndAfter ==
    /\ \A t \in inflight : router.currentStateList = trans[t].before
    /\ last.op = "fulfilled" =>
          /\ Emits("transitionComplete") # {}
          /\ router.currentStateList =
                IF last.tr.kind # "history" /\ router.pendingReplace # Null
                THEN router.pendingReplace
                ELSE last.tr.stateList
    /\ \A t \in DOMAIN trans :
          trans[t].status = "fulfilled" => router.currentStateList = trans[t].entered
    /\ last.op = "finally" => router.currentStateList = last.tr.entered

\* a transition has just completed with a replaceStateList on record:
\* currentStateList is neither the list before it nor the list it entered
C13_Witness ==
    /\ last.op = "fulfilled"
    /\ last.tr.kind # "history"
    /\ router.pendingReplace # Null
    /\ router.currentStateList # last.tr.stateList
    /\ router.currentStateList # last.tr.before
    /\ last.tr.before # Null

\* C14: a popstate event whose state is not null and lacks the router's tag
\* changes nothing: no notification, no call of the front controller, of
\* fromURL or of the history API, and the router's fields, the queue, the
\* transitions, the promises and the window are as they were.
C14_ForeignPopStateIgnored ==
    [][(last'.op = "popstate" /\ last'.event = ForeignState) =>
          /\ last'.effects = <<>>
          /\ last'.ret = 0
          /\ router' = router
          /\ window' = window
          /\ trans' = trans
          /\ inflight' = inflight
          /\ promises' = promises
          /\ jobs' = jobs]_vars

\* such an event has arrived while a transition runs and a request waits
C14_Witness ==
    /\ last.op = "popstate"
    /\ last.event = ForeignState
    /\ inflight # {}
    /\ router.queue.hasEntry

\* C15: a popstate event with a null state is handled as a navigation to the
\* initial record: fromURL decodes the initial record's url and a transition
\* to that list is started or queued with isUpgrade false and no history
\* write, and in every state an event with a null state does exactly what an
\* event carrying the initial record does.
C15_NullPopStateIsInitialRecord ==
    /\ window.listening =>
          _onpopstate([World EXCEPT !.event = NullState], NullState)
             = _onpopstate([World EXCEPT !.event = NullState], router.initialHistoryState)
    /\ (last.op = "popstate" /\ last.event = NullState) =>
          LET url == router.initialHistoryState.url
              stateList == fromURL(url)
          IN /\ IsOwn(router.initialHistoryState)
             /\ \E i \in 1..Len(last.effects) :
                   /\ last.effects[i].e = "fromURL"
                   /\ last.effects[i].arg = url
             /\ \A i \in Starts :
                   /\ last.effects[i].stateList = stateList
                   /\ ~last.effects[i].upgrade
                   /\ trans[router.pendingTransitionPromise].fromHistory = url
             /\ Starts = {} =>
                   /\ router.queue.hasEntry
                   /\ router.queue.stateList = stateList
                   /\ router.queue.fromHistory = url
                   /\ ~router.queue.upgrade
                   /\ ~router.queue.push
             /\ \A i \in Emits("historyPopState") :
                   /\ last.effects[i].stateList = stateList
                   /\ last.effects[i].arg = url

\* an event with a null state has started a transition to the list of the
\* initial record, which is not the list of the current location
C15_Witness ==
    /\ last.op = "popstate"
    /\ last.event = NullState
    /\ Starts # {}
    /\ window.location # router.initialHistoryState.url
    /\ \A i \in Starts : last.effects[i].stateList = fromURL(router.initialHistoryState.url)

\* C16 as stated: a transition asked for by a popstate event with an own
\* record of url u calls the front controller with (fromURL(u), false),
\* whether it starts at once or from the queue, writes no history, and on
\* success makes currentStateList the decoded list and emits
\* transitionComplete with that list and u.
C16_PopStateEntersDecodedList ==
    /\ (last.op = "popstate" /\ IsOwn(last.event)) =>
          LET url == last.event.url
          IN /\ Writes = {}
             /\ \A i \in Starts :
                   /\ last.effects[i].stateList = fromURL(url)
                   /\ ~last.effects[i].upgrade
                   /\ trans[router.pendingTransitionPromise].fromHistory = url
             /\ Starts = {} =>
                   /\ router.queue.hasEntry
                   /\ router.queue.stateList = fromURL(url)
                   /\ router.queue.fromHistory = url
                   /\ ~router.queue.upgrade
    /\ \A t \in DOMAIN trans :
          IsPopState(trans[t]) =>
             /\ trans[t].stateList = fromURL(trans[t].fromHistory)
             /\ trans[t].wrote = "none"
    /\ \A i \in Starts :
          IsPopState(trans[router.pendingTransitionPromise]) =>
             /\ last.effects[i].stateList
                   = fromURL(trans[router.pendingTransitionPromise].fromHistory)
             /\ ~last.effects[i].upgrade
    /\ (last.op = "fulfilled" /\ IsPopState(last.tr)) =>
          /\ Writes = {}
          /\ Cardinality(Emits("transitionComplete")) = 1
          /\ \A i \in Emits("transitionComplete") :
                /\ last.effects[i].stateList = last.tr.stateList
                /\ last.effects[i].arg = last.tr.fromHistory
          /\ router.currentStateList = last.tr.stateList

\* C16, amended: as above, but on success currentStateList is the decoded
\* list, or, for a transition run from the queue, the list of the
\* replaceStateList on record at that moment if there is one.
C16_PopStateTransition ==
    /\ (last.op = "popstate" /\ IsOwn(last.event)) =>
          LET url == last.event.url
          IN /\ Writes = {}
             /\ \A i \in Starts :
                   /\ last.effects[i].stateList = fromURL(url)
                   /\ ~last.effects[i].upgrade
                   /\ trans[router.pendingTransitionPromise].fromHistory = url
             /\ Starts = {} =>
                   /\ router.queue.hasEntry
                   /\ router.queue.stateList = fromURL(url)
                   /\ router.queue.fromHistory = url
                   /\ ~router.queue.upgrade
    /\ \A t \in DOMAIN trans :
          IsPopState(trans[t]) =>
             /\ trans[t].stateList = fromURL(trans[t].fromHistory)
             /\ trans[t].wrote = "none"
    /\ \A i \in Starts :
          IsPopState(trans[router.pendingTransitionPromise]) =>
             /\ last.effects[i].stateList
                   = fromURL(trans[router.pendingTransitionPromise].fromHistory)
             /\ ~last.effects[i].upgrade
    /\ (last.op = "fulfilled" /\ IsPopState(last.tr)) =>
          /\ Writes = {}
          /\ Cardinality(Emits("transitionComplete")) = 1
          /\ \A i \in Emits("transitionComplete") :
                /\ last.effects[i].stateList = last.tr.stateList
                /\ last.effects[i].arg = last.tr.fromHistory
          /\ router.currentStateList =
                IF last.tr.kind = "queued" /\ router.pendingReplace # Null
                THEN router.pendingReplace
                ELSE last.tr.stateList

\* a popstate request run from the queue has succeeded with a
\* replaceStateList on record, and the url it reports is not the url of the
\* list that is now current
C16_Witness ==
    /\ last.op = "fulfilled"
    /\ IsPopState(last.tr)
    /\ last.tr.kind = "queued"
    /\ router.pendingReplace # Null
    /\ router.currentStateList # last.tr.stateList
    /\ \E i \in Emits("transitionComplete") :
          last.effects[i].arg # toURL(router.currentStateList)

\* the record a popstate event stands for
PopStateRecord ==
    IF last.event = NullState THEN router.initialHistoryState ELSE last.event

\* C17: the handling of a popstate event that resolves to an own record
\* emits historyPopState exactly once, within the handling, with the decoded
\* list, the record's url and the promise of the outcome (the promise of the
\* queue if the request was queued); at that moment the operation of the
\* front controller for the request has not settled, and has not started if
\* the request was queued. No other step emits historyPopState.
C17_HistoryPopStateOnce ==
    /\ Emits("historyPopState") # {} => last.op = "popstate"
    /\ (last.op = "popstate" /\ IsOwn(PopStateRecord)) =>
          /\ Cardinality(Emits("historyPopState")) = 1
          /\ \A i \in Emits("historyPopState") :
                /\ last.effects[i].stateList = fromURL(PopStateRecord.url)
                /\ last.effects[i].arg = PopStateRecord.url
                /\ last.effects[i].p = last.ret
                /\ last.ret \in DOMAIN promises
                /\ promises[last.ret].state = "pending"
                /\ Settles = {}
                /\ IF Starts # {}
                   THEN /\ router.pendingTransitionPromise \in inflight
                        /\ trans[router.pendingTransitionPromise].future = last.ret
                   ELSE /\ router.queue.hasEntry
                        /\ router.queue.promise = last.ret
                        /\ router.queue.fromHistory = PopStateRecord.url
                        /\ \A t \in DOMAIN trans : trans[t].future # last.ret

\* an event has been queued behind a running transition and historyPopState
\* has carried the promise of the queue, which an earlier request shares
C17_Witness ==
    /\ last.op = "popstate"
    /\ IsOwn(last.event)
    /\ Starts = {}
    /\ Emits("historyPopState") # {}
    /\ router.queue.promise = last.ret
    /\ Len(promises[last.ret].callers) > 1

\* C18 as stated: upgradeInitialState asks for a transition to the decoding
\* of the initial record's url; the front controller is called with
\* isUpgrade true, whether the transition starts at once or from the queue;
\* no history is written for it; on success currentStateList is the decoded
\* list and the promise returned resolves to null.
C18_UpgradeEntersDecodedList ==
    /\ last.op = "upgradeInitialState" =>
          LET url == router.initialHistoryState.url
          IN /\ Writes = {}
             /\ last.ret \in DOMAIN promises
             /\ \A i \in Starts :
                   /\ last.effects[i].stateList = fromURL(url)
                   /\ last.effects[i].upgrade
                   /\ trans[router.pendingTransitionPromise].future = last.ret
             /\ Starts = {} =>
                   /\ router.queue.hasEntry
                   /\ router.queue.stateList = fromURL(url)
                   /\ router.queue.fromHistory = url
                   /\ router.queue.upgrade
                   /\ ~router.queue.push
                   /\ router.queue.promise = last.ret
    /\ \A t \in DOMAIN trans :
          trans[t].upgrade =>
             /\ trans[t].fromHistory # NotFromHistory
             /\ trans[t].stateList = fromURL(trans[t].fromHistory)
             /\ trans[t].wrote = "none"
    /\ \A i \in Starts :
          /\ last.effects[i].upgrade <=> trans[router.pendingTransitionPromise].upgrade
          /\ last.effects[i].upgrade =>
                last.effects[i].stateList
                   = fromURL(trans[router.pendingTransitionPromise].fromHistory)
    /\ (last.op = "finally" /\ last.tr.upgrade) =>
          \E i \in Settles :
             /\ last.effects[i].p = last.tr.future
             /\ last.effects[i].name = "resolved"
             /\ last.effects[i].arg = Null
    /\ (/\ last.op = "observe"
        /\ last.promise.state = "resolved"
        /\ \E k \in 1..Len(last.promise.callers) :
              last.promise.callers[k].api = "upgradeInitialState") =>
          last.promise.value = Null
    /\ (last.op = "fulfilled" /\ last.tr.upgrade) =>
          /\ Writes = {}
          /\ router.currentStateList = last.tr.stateList

\* C18, amended: as above, but on success currentStateList is the decoded
\* list, or, for a transition run from the queue, the list of the
\* replaceStateList on record at that moment if there is one.
C18_UpgradeTransition ==
    /\ last.op = "upgradeInitialState" =>
          LET url == router.initialHistoryState.url
          IN /\ Writes = {}
             /\ last.ret \in DOMAIN promises
             /\ \A i \in Starts :
                   /\ last.effects[i].stateList = fromURL(url)
                   /\ last.effects[i].upgrade
                   /\ trans[router.pendingTransitionPromise].future = last.ret
             /\ Starts = {} =>
                   /\ router.queue.hasEntry
                   /\ router.queue.stateList = fromURL(url)
                   /\ router.queue.fromHistory = url
                   /\ router.queue.upgrade
                   /\ ~router.queue.push
                   /\ router.queue.promise = last.ret
    /\ \A t \in DOMAIN trans :
          trans[t].upgrade =>
             /\ trans[t].fromHistory # NotFromHistory
             /\ trans[t].stateList = fromURL(trans[t].fromHistory)
             /\ trans[t].wrote = "none"
    /\ \A i \in Starts :
          /\ last.effects[i].upgrade <=> trans[router.pendingTransitionPromise].upgrade
          /\ last.effects[i].upgrade =>
                last.effects[i].stateList
                   = fromURL(trans[router.pendingTransitionPromise].fromHistory)
    /\ (last.op = "finally" /\ last.tr.upgrade) =>
          \E i \in Settles :
             /\ last.effects[i].p = last.tr.future
             /\ last.effects[i].name = "resolved"
             /\ last.effects[i].arg = Null
    /\ (/\ last.op = "observe"
        /\ last.promise.state = "resolved"
        /\ \E k \in 1..Len(last.promise.callers) :
              last.promise.callers[k].api = "upgradeInitialState") =>
          last.promise.value = Null
    /\ (last.op = "fulfilled" /\ last.tr.upgrade) =>
          /\ Writes = {}
          /\ router.currentStateList =
                IF last.tr.kind = "queued" /\ router.pendingReplace # Null
                THEN router.pendingReplace
                ELSE last.tr.stateList

\* an upgrade run from the queue has completed with isUpgrade true and
\* without a history write, while the window is at another url
C18_Witness ==
    /\ last.op = "fulfilled"
    /\ last.tr.upgrade
    /\ last.tr.kind = "queued"
    /\ last.tr.wrote = "none"
    /\ router.currentStateList = last.tr.stateList
    /\ window.location # last.tr.fromHistory

\* the record a capture makes of the window as it is
CapturedNow ==
    IF IsOwn(window.state) THEN window.state ELSE _urlToHistoryState(window.location)

\* C19: the initial record the router captures, in upgradeInitialState and in
\* the attachPopStateListener of a router that has none, is history.state if
\* that carries the router's tag and a record of the location otherwise;
\* upgradeInitialState asks for the decoding of that record's url; no other
\* step changes the record.
C19_InitialRecordCaptured ==
    [][/\ last'.op = "upgradeInitialState" =>
             /\ router'.initialHistoryState = CapturedNow
             /\ last'.stateList = fromURL(CapturedNow.url)
             /\ \A i \in Starts' : last'.effects[i].stateList = fromURL(CapturedNow.url)
             /\ Starts' = {} => router'.queue.stateList = fromURL(CapturedNow.url)
       /\ (last'.op = "attachPopStateListener"
              /\ router.initialHistoryState = NullState) =>
             router'.initialHistoryState = CapturedNow
       /\ last'.op \notin {"upgradeInitialState", "attachPopStateListener"} =>
             router'.initialHistoryState = router.initialHistoryState]_vars

\* upgradeInitialState has taken history.state for the initial record while
\* the location says something else, and has started the transition to its list
C19_Witness ==
    /\ last.op = "upgradeInitialState"
    /\ IsOwn(window.state)
    /\ window.state.url # window.location
    /\ router.initialHistoryState = window.state
    /\ \E i \in Starts : last.effects[i].stateList = fromURL(window.state.url)

\* C20: attachPopStateListener on a router that holds an initial record,
\* captured by an earlier upgradeInitialState, leaves that record as it is,
\* whatever history.state and the location are by then.
C20_AttachKeepsInitialRecord ==
    [][(last'.op = "attachPopStateListener" /\ router.initialHistoryState # NullState) =>
          /\ router'.initialHistoryState = router.initialHistoryState
          /\ window'.listening]_vars

\* the listener has been attached after an upgradeInitialState, at a moment
\* when a capture would have produced another record
C20_Witness ==
    /\ last.op = "attachPopStateListener"
    /\ IsOwn(router.initialHistoryState)
    /\ router.initialHistoryState # CapturedNow

\* C21: once the router holds an initial record, no step changes it;
\* upgradeInitialState in particular leaves it alone, whatever history.state
\* and the location have become.
C21_InitialRecordCapturedOnce ==
    [][router.initialHistoryState # NullState =>
          router'.initialHistoryState = router.initialHistoryState]_vars

\* what C22 says of an upgradeInitialState made while a transition runs, but
\* for the value of currentStateList at the end: the call settles nothing and
\* starts nothing, the request takes the queue slot with isUpgrade true and no
\* history write; the request starts only in the finally callback of the
\* transition before it, which has made its history write by then; the front
\* controller is called with isUpgrade true; the promise resolves to null in
\* the finally callback of the upgrade's own transition.
C22_QueuedUpgradeCommon ==
    /\ (last.op = "upgradeInitialState" /\ Starts = {}) =>
          /\ Settles = {}
          /\ Writes = {}
          /\ DOMAIN trans # {}
          /\ router.queue.hasEntry
          /\ router.queue.upgrade
          /\ ~router.queue.push
          /\ router.queue.stateList = fromURL(router.initialHistoryState.url)
          /\ router.queue.promise = last.ret
          /\ promises[last.ret].state = "pending"
    /\ \A i \in Starts :
          (last.effects[i].name = "queued" /\ last.effects[i].upgrade) =>
             /\ last.op \in {"finally", "rejected"}
             /\ last.tr.status \in {"done", "failed"}
             /\ (last.tr.status = "done" /\ IsApi(last.tr)) => last.tr.wrote # "none"
             /\ last.tr.status = "done" => last.tr.entered # Null
             /\ trans[router.pendingTransitionPromise].upgrade
             /\ trans[router.pendingTransitionPromise].future = last.effects[i].p
             /\ promises[last.effects[i].p].state = "pending"
    /\ \A t \in DOMAIN trans :
          (trans[t].kind = "queued" /\ trans[t].upgrade) =>
             /\ trans[t].wrote = "none"
             /\ promises[trans[t].future].state = "pending"
    /\ (last.op = "fulfilled" /\ last.tr.kind = "queued" /\ last.tr.upgrade) =>
          /\ Writes = {}
          /\ Settles = {}
    /\ (last.op = "finally" /\ last.tr.kind = "queued" /\ last.tr.upgrade) =>
          \E i \in Settles :
             /\ last.effects[i].p = last.tr.future
             /\ last.effects[i].name = "resolved"
             /\ last.effects[i].arg = Null

\* C22 as stated: as above, and when the promise resolves currentStateList is
\* the list of the upgrade.
C22_QueuedUpgradeEntersItsList ==
    /\ C22_QueuedUpgradeCommon
    /\ (last.op = "finally" /\ last.tr.kind = "queued" /\ last.tr.upgrade) =>
          router.currentStateList = last.tr.stateList

\* C22, amended: as above, and when the promise resolves currentStateList is
\* what the fulfilment callback assigned: the list of the upgrade, or the list
\* of the replaceStateList on record at that moment if there was one.
C22_QueuedUpgrade ==
    /\ C22_QueuedUpgradeCommon
    /\ (last.op = "fulfilled" /\ last.tr.kind = "queued" /\ last.tr.upgrade) =>
          router.currentStateList =
             IF router.pendingReplace # Null THEN router.pendingReplace
             ELSE last.tr.stateList
    /\ (last.op = "finally" /\ last.tr.kind = "queued" /\ last.tr.upgrade) =>
          router.currentStateList = last.tr.entered

\* the promise of an upgrade that waited in the queue behind an enterStates
\* with a history write has resolved
C22_Witness ==
    /\ last.op = "finally"
    /\ last.tr.kind = "queued"
    /\ last.tr.upgrade
    /\ router.currentStateList = last.tr.stateList
    /\ window.location # last.tr.fromHistory
    /\ \E i \in Settles : last.effects[i].name = "resolved"

\* C23: replaceStateList(L) on an idle router makes currentStateList L at
\* once and makes one replaceState call, with the record of toURL(L) and the
\* url toURL(L); it makes no pushState, does not call the front controller,
\* emits nothing, settles nothing and leaves pending false.
C23_IdleReplaceStateList ==
    (last.op = "replaceStateList" /\ ~pending(router)) =>
       /\ router.currentStateList = last.stateList
       /\ Len(last.effects) = 1
       /\ last.effects[1].e = "replaceState"
       /\ last.effects[1].name = "own"
       /\ last.effects[1].arg = toURL(last.stateList)
       /\ window.state = _urlToHistoryState(toURL(last.stateList))
       /\ window.location = toURL(last.stateList)
       /\ inflight = {}
       /\ trans = <<>>
       /\ ~router.queue.hasEntry

\* replaceStateList has replaced the list and the url that a completed
\* transition had left
C23_Witness ==
    /\ last.op = "replaceStateList"
    /\ ~pending(router)
    /\ Writes # {}
    /\ router.currentStateList = last.stateList
    /\ ncalls > 1

\* what C24 says of a transition asked for through enterStates or
\* queueEnterStates, but for the place of the assignment of currentStateList:
\* the front controller is called once with (stateList, false); on success
\* there is first one history write of the url of the list now current,
\* pushState if push is true and replaceState if not, and then one
\* transitionComplete with the list asked for and that url; on failure there
\* is no history write and no transitionComplete.
C24_ApiTransitionCommon ==
    /\ \A i \in Starts :
          IsApi(trans[router.pendingTransitionPromise]) =>
             /\ Cardinality(Starts) = 1
             /\ last.effects[i].stateList = trans[router.pendingTransitionPromise].stateList
             /\ ~last.effects[i].upgrade
    /\ (last.op = "fulfilled" /\ IsApi(last.tr)) =>
          /\ Len(last.effects) = 2
          /\ last.effects[1].e = IF last.tr.push THEN "pushState" ELSE "replaceState"
          /\ last.effects[1].arg = toURL(router.currentStateList)
          /\ window.location = toURL(router.currentStateList)
          /\ last.effects[2].e = "emit"
          /\ last.effects[2].name = "transitionComplete"
          /\ last.effects[2].stateList = last.tr.stateList
          /\ last.effects[2].arg = last.effects[1].arg
    /\ (last.op = "finally" /\ IsApi(last.tr)) =>
          /\ Writes = {}
          /\ Emits("transitionComplete") = {}
    /\ (last.op = "rejected" /\ IsApi(last.tr)) =>
          /\ Writes = {}
          /\ Emits("transitionComplete") = {}
          /\ last.tr.wrote = "none"

\* C24 as stated: in the order of the claim the history write comes before
\* the update of currentStateList, so the host finds the list from before the
\* transition on the router during the write.
C24_WriteBeforeUpdate ==
    /\ C24_ApiTransitionCommon
    /\ (last.op = "fulfilled" /\ IsApi(last.tr)) =>
          last.effects[1].stateList = last.tr.before

\* C24, amended: the order is the call of the front controller, the update of
\* currentStateList, the history write, the transitionComplete: during the
\* write the host finds the new list on the router.
C24_ApiTransitionOrder ==
    /\ C24_ApiTransitionCommon
    /\ (last.op = "fulfilled" /\ IsApi(last.tr)) =>
          /\ last.effects[1].stateList = router.currentStateList
          /\ router.currentStateList = last.tr.entered

\* a queueEnterStates request run from the queue with push false has made its
\* replaceState and its transitionComplete, entering a list other than the one
\* before
C24_Witness ==
    /\ last.op = "fulfilled"
    /\ last.tr.kind = "queued"
    /\ IsApi(last.tr)
    /\ ~last.tr.push
    /\ Len(last.effects) = 2
    /\ last.effects[1].e = "replaceState"
    /\ last.effects[1].stateList # last.tr.before
    /\ last.tr.before # Null

\* C25: on an idle router queueEnterStates(L, push) does what
\* enterStates(L, push) does: whatever L and push, the two calls leave the
\* router, the window, the started transition, the promises and the effects
\* the same and return the same promise, and a queueEnterStates step taken
\* on an idle router starts the transition at once and leaves the queue empty.
C25_QueueEnterStatesWhenIdle ==
    /\ ~pending(router) =>
          \A l \in StateLists, push \in BOOLEAN :
             queueEnterStates(World, l, push) = enterStates(World, l, push)
    /\ (last.op = "queueEnterStates" /\ Starts # {}) =>
          /\ Cardinality(Starts) = 1
          /\ \A i \in Starts :
                /\ last.effects[i].name = "enter"
                /\ last.effects[i].stateList = last.stateList
                /\ last.effects[i].p = last.ret
          /\ Settles = {}
          /\ ~router.queue.hasEntry
          /\ router.queue.promise = 0
          /\ trans[router.pendingTransitionPromise].kind = "enter"
          /\ trans[router.pendingTransitionPromise].future = last.ret
    /\ (last.op = "queueEnterStates" /\ Starts = {}) =>
          /\ router.queue.hasEntry
          /\ DOMAIN trans # {}

\* queueEnterStates on an idle router that holds a list has started a
\* transition
C25_Witness ==
    /\ last.op = "queueEnterStates"
    /\ Starts # {}
    /\ router.currentStateList # Null
    /\ ~router.queue.hasEntry

\* C26: for as long as the operation of the front controller has not settled,
\* whatever else happens, pending stays true, no other operation starts, a
\* request in the queue stays there with its promise pending, enterStates
\* rejects, and currentStateList, history.state and the location stay what
\* they were. An operation that never settles leaves the router so for ever.
C26_UnsettledOperationBlocks ==
    [][(inflight # {} /\ inflight' = inflight) =>
          /\ pending(router')
          /\ router'.pendingTransitionPromise = router.pendingTransitionPromise
          /\ Starts' = {}
          /\ Writes' = {}
          /\ router'.currentStateList = router.currentStateList
          /\ window'.state = window.state
          /\ window'.location = window.location
          /\ router.queue.hasEntry =>
                /\ router'.queue.hasEntry
                /\ router'.queue.promise = router.queue.promise
          /\ router'.queue.hasEntry =>
                /\ router'.queue.promise \in DOMAIN promises'
                /\ promises'[router'.queue.promise].state = "pending"
          /\ last'.op = "enterStates" =>
                \E i \in Settles' :
                   /\ last'.effects[i].p = last'.ret
                   /\ last'.effects[i].name = "rejected"
                   /\ last'.effects[i].arg = PendingError]_vars

\* the operation is still in flight after every call the page could make: a
\* request waits in the queue and the last enterStates was rejected
C26_Witness ==
    /\ inflight # {}
    /\ ncalls = MaxCalls
    /\ router.queue.hasEntry
    /\ last.op = "enterStates"
    /\ Settles # {}
    /\ jobs # <<>>

\* C27: when toURL throws in the fulfilment callback of a transition, the
\* transition has failed: no pushState or replaceState is made, no
\* transitionComplete is emitted, currentStateList is what it was before the
\* transition, the promise rejects with the error of toURL, and a request in
\* the queue is started all the same.
C27_ToURLFailureIsTransitionFailure ==
    /\ (last.op = "fulfilled" /\ last.tr.status = "threw") =>
          /\ last.thrown = CodecError
          /\ Writes = {}
          /\ Emits("transitionComplete") = {}
          /\ router.currentStateList = last.tr.before
    /\ (last.op = "finally" /\ last.tr.status = "failed") =>
          /\ Writes = {}
          /\ Emits("transitionComplete") = {}
          /\ router.currentStateList = last.tr.before
          /\ \E i \in Settles :
                /\ last.effects[i].p = last.tr.future
                /\ last.effects[i].name = "rejected"
                /\ last.effects[i].arg = CodecError
          /\ Starts = {} => ~router.queue.hasEntry /\ ~pending(router)

\* the record upgradeInitialState or a popstate event has just handled
HandledRecord ==
    IF last.op = "upgradeInitialState" THEN router.initialHistoryState
    ELSE PopStateRecord

\* C28: when fromURL throws for the url of the record that
\* upgradeInitialState or a popstate event handles, the error leaves the call
\* and nothing else has happened: the front controller is not called, the
\* queue, pending and currentStateList are what they were, no promise is made
\* or settled, no history is written and nothing is emitted. These calls
\* throw in no other case.
C28_FromURLFailureIsSynchronous ==
    [][last'.op \in {"upgradeInitialState", "popstate"} =>
          /\ last'.thrown # NoError <=>
                (IsOwn(HandledRecord') /\ HandledRecord'.url \notin URLs)
          /\ last'.thrown # NoError =>
                /\ last'.thrown = CodecError
                /\ last'.ret = 0
                /\ Len(last'.effects) = 1
                /\ last'.effects[1].e = "fromURL"
                /\ last'.effects[1].arg = HandledRecord'.url
                /\ router' = [router EXCEPT
                                 !.initialHistoryState = router'.initialHistoryState]
                /\ window' = window
                /\ trans' = trans
                /\ inflight' = inflight
                /\ promises' = promises
                /\ jobs' = jobs]_vars

\* fromURL has thrown for a popstate event that arrived while a transition
\* was running and a request was waiting
C28_Witness ==
    /\ last.op = "popstate"
    /\ last.thrown = CodecError
    /\ inflight # {}
    /\ router.queue.hasEntry
    /\ router.queue.fromHistory = NotFromHistory

\* C29: the front controller is called for a request from the queue only in
\* the finally callback of the transition before it, after that transition's
\* update of currentStateList, history write and transitionComplete if it
\* succeeded; never in a fulfilment callback. A request waits only while a
\* transition is pending, and if one waited when the finally callback began
\* the callback ends with the next transition pending: at no step is the
\* router idle with a request in the queue.
C29_QueuedStartsAfterFullSettlement ==
    /\ \A i \in Starts :
          last.effects[i].name = "queued" =>
             /\ last.op \in {"finally", "rejected"}
             /\ last.tr.status \in {"done", "failed"}
             /\ last.tr.status = "done" =>
                   /\ last.tr.entered # Null
                   /\ IsApi(last.tr) => last.tr.wrote # "none"
             /\ Writes = {}
             /\ Emits("transitionComplete") = {}
             /\ pending(router)
             /\ inflight = {router.pendingTransitionPromise}
    /\ last.op = "fulfilled" => Starts = {}
    /\ router.queue.hasEntry => pending(router) /\ DOMAIN trans # {}
    /\ (last.op \in {"finally", "rejected"} /\ ~pending(router)) =>
          /\ Starts = {}
          /\ ~router.queue.hasEntry
          /\ last.tr.future \in DOMAIN promises =>
                ~promises[last.tr.future].queuedAtSettle
    /\ (/\ last.op \in {"finally", "rejected"}
        /\ last.tr.future \in DOMAIN promises
        /\ promises[last.tr.future].queuedAtSettle) =>
          /\ Cardinality(Starts) = 1
          /\ pending(router)

\* a request from the queue has started in the finally callback of a popstate
\* transition that succeeded
C29_Witness ==
    /\ last.op = "finally"
    /\ last.tr.kind = "history"
    /\ last.tr.status = "done"
    /\ \E i \in Starts : last.effects[i].name = "queued"
    /\ pending(router)

C31_WritesOnlyWhilePending ==
    Writes # {} => pending(router)

\* C31, amended: the history is written in two places only. The fulfilment
\* callback of a transition asked for through enterStates or queueEnterStates
\* makes one write, while pending is true and after the operation of the
\* front controller has settled; and replaceStateList called on an idle router
\* makes one replaceState, with pending false. No other step writes history:
\* no call made while a transition is pending, no popstate or upgrade
\* transition, no finally callback, no failure.
C31_WritesByExecutorOrIdleReplace ==
    Writes # {} =>
       /\ Cardinality(Writes) = 1
       /\ \/ /\ last.op = "fulfilled"
             /\ pending(router)
             /\ router.pendingTransitionPromise = last.t
             /\ last.t \notin inflight
             /\ IsApi(last.tr)
          \/ /\ last.op = "replaceStateList"
             /\ ~pending(router)
             /\ inflight = {}
             /\ \A i \in Writes : last.effects[i].e = "replaceState"

\* replaceStateList has written the history on a router that has never run a
\* transition: no controller operation was ever invoked
C31_Witness ==
    /\ last.op = "replaceStateList"
    /\ Writes # {}
    /\ ~pending(router)
    /\ ncalls = 1
    /\ window.location = toURL(last.stateList)

\* C32: the finally callback of every transition, whatever its origin and
\* whether it was started directly or from the queue, leaves no
\* replaceStateList override on record; so no override is on record while
\* pending is false, and a transition during whose controller operation no
\* replaceStateList was made enters its own list.
C32_OverrideClearedAtSettlement ==
    /\ last.op \in {"finally", "rejected"} => router.pendingReplace = Null
    /\ ~pending(router) => router.pendingReplace = Null
    /\ (last.op = "fulfilled" /\ last.tr.override = Null) =>
          router.currentStateList = last.tr.stateList

\* the promises that can be live at one time: a call makes one at most
PromiseIds == 1..MaxCalls

\* C33: in a page whose jobs run, where the front controller settles every
\* operation and the calls are finitely many, every promise the router has
\* handed out that is pending is settled later, resolved with null or
\* rejected with the error of the front controller; and from some moment on
\* the router is idle, its queue holds no request and no promise, no
\* transition is left and every caller has seen the outcome of its promise.
C33_EveryFutureSettles ==
    /\ \A p \in PromiseIds :
          (p \in DOMAIN promises /\ promises[p].state = "pending")
             ~> (/\ p \in DOMAIN promises
                 /\ \/ promises[p].state = "resolved" /\ promises[p].value = Null
                    \/ promises[p].state = "rejected"
                       /\ promises[p].value = ControllerError)
    /\ <>[](/\ ~pending(router)
            /\ ~router.queue.hasEntry
            /\ router.queue.promise = 0
            /\ trans = <<>>
            /\ promises = <<>>
            /\ jobs = <<>>)

\* after every call the page could make, the callers of upgradeInitialState
\* and of queueEnterStates, who shared the promise of the queue, have seen it
\* rejected, and the router is idle with nothing left
C33_Witness ==
    /\ last.op = "observe"
    /\ ncalls = MaxCalls
    /\ Len(last.promise.callers) = 2
    /\ \E i \in 1..2 : last.promise.callers[i].api = "upgradeInitialState"
    /\ \E i \in 1..2 : last.promise.callers[i].api = "queueEnterStates"
    /\ last.promise.state = "rejected"
    /\ last.promise.value = ControllerError
    /\ ~pending(router)
    /\ ~router.queue.hasEntry
    /\ promises = <<>>
    /\ jobs = <<>>

\* the queue slot holds exactly this request, bound to the promise p
SlotHolds(q, stateList, fromHistory, upgrade, push, p) ==
    q = [hasEntry |-> TRUE, stateList |-> stateList, fromHistory |-> fromHistory,
         upgrade |-> upgrade, push |-> push, promise |-> p]

\* the promise a request made of a pending router is bound to: that of the
\* slot if it has one, a new one if not
SlotPromise == IF router.queue.promise # 0 THEN router.queue.promise ELSE last'.ret

\* C34: a request made while a transition is pending, whatever waits in the
\* slot and whatever its origin, leaves in the slot the list, the push flag,
\* the upgrade flag and the pinned url of that request alone: queueEnterStates
\* its list and push flag, no upgrade and no url; upgradeInitialState and a
\* popstate event the decoded list and the record's url, no push, and upgrade
\* for the former only. The transition run from the slot is called with the
\* slot's list and upgrade flag and keeps its push flag and url, and the slot
\* is emptied. On success a request of queueEnterStates makes one write,
\* pushState or replaceState by its own push flag, with the url of the list
\* made current (its own list, if no replaceStateList override is on
\* record); a request of popstate or upgrade makes no write and reports its
\* pinned url.
C34_LatestSubmissionOnly ==
    [][/\ \A l \in StateLists, push \in BOOLEAN :
             (/\ pending(router)
              /\ last'.op = "queueEnterStates"
              /\ CallQueueEnterStates(l, push)) =>
                SlotHolds(router'.queue, l, NotFromHistory, FALSE, push, SlotPromise)
       /\ (/\ pending(router)
           /\ last'.op = "upgradeInitialState"
           /\ CallUpgradeInitialState) =>
             SlotHolds(router'.queue, fromURL(router'.initialHistoryState.url),
                       router'.initialHistoryState.url, TRUE, FALSE, SlotPromise)
       /\ \A s \in HistoryStates :
             (/\ pending(router)
              /\ last'.op = "popstate"
              /\ IsOwn(PopStateRecord')
              /\ PopState(s)) =>
                SlotHolds(router'.queue, fromURL(PopStateRecord'.url),
                          PopStateRecord'.url, FALSE, FALSE, SlotPromise)
       /\ (last'.op \in {"finally", "rejected"} /\ router.queue.hasEntry) =>
             /\ router'.queue = EmptyQueue
             /\ Cardinality(Starts') = 1
             /\ \A i \in Starts' :
                   /\ last'.effects[i].stateList = router.queue.stateList
                   /\ last'.effects[i].upgrade = router.queue.upgrade
             /\ LET tr == trans'[router'.pendingTransitionPromise]
                IN /\ tr.kind = "queued"
                   /\ tr.stateList = router.queue.stateList
                   /\ tr.push = router.queue.push
                   /\ tr.upgrade = router.queue.upgrade
                   /\ tr.fromHistory = router.queue.fromHistory
                   /\ tr.future = router.queue.promise
       /\ (last'.op = "fulfilled" /\ last'.tr.kind = "queued") =>
             /\ last'.tr.stateList = trans[last'.t].stateList
             /\ last'.tr.push = trans[last'.t].push
             /\ last'.tr.fromHistory = trans[last'.t].fromHistory
             /\ IF last'.tr.fromHistory = NotFromHistory
                THEN /\ Cardinality(Writes') = 1
                     /\ \A i \in Writes' :
                           /\ last'.effects[i].e =
                                 IF last'.tr.push THEN "pushState" ELSE "replaceState"
                           /\ last'.effects[i].arg = toURL(router'.currentStateList)
                           /\ router.pendingReplace = Null =>
                                 last'.effects[i].arg = toURL(last'.tr.stateList)
                ELSE /\ Writes' = {}
                     /\ \A i \in Emits("transitionComplete")' :
                           last'.effects[i].arg = last'.tr.fromHistory]_vars

\* a popstate request was overwritten in the slot by a queueEnterStates for
\* another list; the transition run from the slot has succeeded with a
\* pushState of the url of the list of queueEnterStates
C34_Witness ==
    /\ last.op = "fulfilled"
    /\ last.tr.kind = "queued"
    /\ last.tr.future \in DOMAIN promises
    /\ Len(promises[last.tr.future].callers) = 2
    /\ promises[last.tr.future].callers[1].api = "popstate"
    /\ promises[last.tr.future].callers[2].api = "queueEnterStates"
    /\ promises[last.tr.future].callers[1].stateList # last.tr.stateList
    /\ ~last.tr.upgrade
    /\ \E i \in Writes :
          /\ last.effects[i].e = "pushState"
          /\ last.effects[i].arg = toURL(last.tr.stateList)

\* C35: after every step the queue slot holds a request only while a
\* transition is pending, and holds a promise exactly when it holds a
\* request; on an idle router the slot is the empty slot: no request, no
\* list, no flags, no promise.
C35_SlotOccupiedOnlyWhilePending ==
    /\ router.queue.hasEntry => pending(router)
    /\ router.queue.hasEntry <=> router.queue.promise # 0
    /\ ~pending(router) => router.queue = EmptyQueue
    /\ ~router.queue.hasEntry => router.queue = EmptyQueue

\* a transition run from the queue has ended while nothing waited: the
\* router is idle again and the slot, used twice, is empty
C35_Witness ==
    /\ last.op \in {"finally", "rejected"}
    /\ last.tr.kind = "queued"
    /\ Len(promises[last.tr.future].callers) = 2
    /\ ~pending(router)
    /\ router.queue = EmptyQueue

\* C36: every history write of the router, pushState or replaceState, is
\* made with a record that carries the router's tag and with a url; the url
\* is toURL of the currentStateList of the moment of the call, and the record
\* is the record of that same url. A step makes one write at most, and right
\* after it history.state is the record of toURL(currentStateList) and the
\* location is that url.
C36_WriteEncodesCurrentStateList ==
    /\ Cardinality(Writes) <= 1
    /\ \A i \in Writes :
          /\ last.effects[i].name = "own"
          /\ last.effects[i].stateList \in StateLists
          /\ last.effects[i].arg = toURL(last.effects[i].stateList)
          /\ last.effects[i].stateList = router.currentStateList
          /\ window.state = _urlToHistoryState(last.effects[i].arg)
          /\ window.location = last.effects[i].arg
          /\ IsOwn(window.state)
          /\ fromURL(window.state.url) = router.currentStateList

\* an enterStates transition has written the url of the list of a
\* replaceStateList made while its operation was in flight, not that of the
\* list asked for
C36_Witness ==
    /\ last.op = "fulfilled"
    /\ last.tr.kind = "enter"
    /\ last.tr.override # Null
    /\ last.tr.override # last.tr.stateList
    /\ \E i \in Writes : last.effects[i].arg = toURL(last.tr.override)
    /\ window.state.url = toURL(router.currentStateList)

\* the transitions run from the queue that have not ended
QueuedRunning == {t \in DOMAIN trans : trans[t].kind = "queued"}

\* C37: a request put in the queue while a transition run from the queue is
\* pending is bound to the promise of the slot, which is none of the promises
\* of the transitions that have not ended, and is a new promise if the slot
\* was empty; the call leaves those transitions and their promises, callers
\* included, as they were. When such a transition ends while a request waits,
\* the step settles the promise of the ended transition and no other: the
\* promise of the slot stays pending, keeps its callers and becomes the
\* promise of the transition started from the slot, whose outcome it will
\* take.
C37_FreshPromiseAfterDrain ==
    [][/\ (/\ QueuedRunning # {}
           /\ last'.op \in {"queueEnterStates", "upgradeInitialState", "popstate"}
           /\ last'.ret # 0) =>
             /\ router'.queue.hasEntry
             /\ router'.queue.promise = last'.ret
             /\ router.queue.promise = 0 => last'.ret \notin DOMAIN promises
             /\ promises'[last'.ret].state = "pending"
             /\ trans' = trans
             /\ \A t \in DOMAIN trans :
                   /\ trans[t].future # last'.ret
                   /\ promises'[trans[t].future] = promises[trans[t].future]
       /\ (/\ last'.op \in {"finally", "rejected"}
           /\ last'.tr.kind = "queued"
           /\ router.queue.hasEntry) =>
             /\ router.queue.promise # last'.tr.future
             /\ \A i \in Settles' : last'.effects[i].p = last'.tr.future
             /\ promises'[router.queue.promise] = promises[router.queue.promise]
             /\ promises'[router.queue.promise].state = "pending"
             /\ trans'[router'.pendingTransitionPromise].future = router.queue.promise
             /\ router'.queue.promise = 0]_vars

\* a transition run from the queue has failed; the caller who queued a
\* request while it was pending holds another promise, which is pending and
\* is the promise of the transition just started
C37_Witness ==
    /\ last.op = "rejected"
    /\ last.tr.kind = "queued"
    /\ last.tr.future \in DOMAIN promises
    /\ promises[last.tr.future].state = "rejected"
    /\ pending(router)
    /\ trans[router.pendingTransitionPromise].kind = "queued"
    /\ trans[router.pendingTransitionPromise].future # last.tr.future
    /\ promises[trans[router.pendingTransitionPromise].future].state = "pending"
    /\ promises[trans[router.pendingTransitionPromise].future].callers # <<>>

\* C38: the fulfilment callback of a transition asked for through
\* enterStates or queueEnterStates emits transitionComplete once. If a
\* replaceStateList override X is on record, the notification carries the
\* list asked for with the url toURL(X), and currentStateList is X at that
\* moment; if none is, the list carried is currentStateList and the url is
\* toURL of it. A popstate or upgrade transition with no override on record
\* also carries currentStateList, with its pinned url.
C38_TransitionCompletePayload ==
    /\ (last.op = "fulfilled" /\ IsApi(last.tr)) =>
          /\ Cardinality(Emits("transitionComplete")) = 1
          /\ \A i \in Emits("transitionComplete") :
                /\ last.effects[i].stateList = last.tr.stateList
                /\ IF router.pendingReplace # Null
                   THEN /\ last.effects[i].arg = toURL(router.pendingReplace)
                        /\ router.currentStateList = router.pendingReplace
                   ELSE /\ last.effects[i].stateList = router.currentStateList
                        /\ last.effects[i].arg = toURL(router.currentStateList)
    /\ (last.op = "fulfilled" /\ ~IsApi(last.tr) /\ router.pendingReplace = Null) =>
          /\ Cardinality(Emits("transitionComplete")) = 1
          /\ \A i \in Emits("transitionComplete") :
                /\ last.effects[i].stateList = router.currentStateList
                /\ last.effects[i].arg = last.tr.fromHistory
    /\ Emits("transitionComplete") # {} => last.op = "fulfilled"

\* a transition run from the queue for queueEnterStates has completed with
\* an override made while its operation was in flight: transitionComplete
\* carried the list asked for and the url of the other list, which is
\* current
C38_Witness ==
    /\ last.op = "fulfilled"
    /\ last.tr.kind = "queued"
    /\ IsApi(last.tr)
    /\ last.tr.override # Null
    /\ last.tr.override # last.tr.stateList
    /\ router.currentStateList = last.tr.override
    /\ \E i \in Emits("transitionComplete") :
          /\ last.effects[i].stateList = last.tr.stateList
          /\ last.effects[i].arg = toURL(last.tr.override)

\* C39: a replaceStateList(X) is never lost. Called on an idle router it
\* makes currentStateList X at once; called while a transition is pending it
\* is recorded, and a recorded list is dropped only as it has become
\* currentStateList or as the transition has failed; and a transition that
\* succeeds after a replaceStateList(X) made while its operation was in
\* flight ends with currentStateList X.
C39_ReplaceNeverLost ==
    [][/\ last'.op = "replaceStateList" =>
             IF pending(router)
             THEN router'.pendingReplace = last'.stateList
             ELSE router'.currentStateList = last'.stateList
       /\ (router.pendingReplace # Null /\ router'.pendingReplace = Null) =>
             \/ router'.currentStateList = router.pendingReplace
             \/ last'.tr.status = "failed"
       /\ (last'.op = "finally" /\ last'.tr.status = "done"
                                /\ last'.tr.override # Null) =>
             router'.currentStateList = last'.tr.override]_vars

\* C40: a call of upgradeInitialState emits upgradeInitialState exactly
\* once, within the call and as its last effect, with the list decoded from
\* the url of the initial record, that url, and the promise the call
\* returns, which is pending. On an idle router the front controller has been
\* called with that list and upgrade = true before the emit, its operation
\* is in flight and the promise is that of the transition; on a pending
\* router no operation is started and the promise is the promise of the
\* queue slot, which now holds the upgrade. No other step emits
\* upgradeInitialState.
C40_UpgradeNotification ==
    /\ Emits("upgradeInitialState") # {} => last.op = "upgradeInitialState"
    /\ last.op = "upgradeInitialState" =>
          /\ Cardinality(Emits("upgradeInitialState")) = 1
          /\ Len(last.effects) \in Emits("upgradeInitialState")
          /\ Settles = {}
          /\ Writes = {}
          /\ \A i \in Emits("upgradeInitialState") :
                /\ last.effects[i].stateList = fromURL(router.initialHistoryState.url)
                /\ last.effects[i].arg = router.initialHistoryState.url
                /\ last.effects[i].p = last.ret
                /\ last.ret \in DOMAIN promises
                /\ promises[last.ret].state = "pending"
                /\ IF Starts # {}
                   THEN /\ \A j \in Starts :
                              /\ j < i
                              /\ last.effects[j].stateList = last.effects[i].stateList
                              /\ last.effects[j].upgrade
                        /\ router.pendingTransitionPromise \in inflight
                        /\ trans[router.pendingTransitionPromise].kind = "history"
                        /\ trans[router.pendingTransitionPromise].future = last.ret
                        /\ ~router.queue.hasEntry
                   ELSE /\ router.queue.hasEntry
                        /\ router.queue.upgrade
                        /\ router.queue.promise = last.ret
                        /\ \A t \in DOMAIN trans : trans[t].future # last.ret

\* an upgrade has been queued behind a running transition and
\* upgradeInitialState has carried the promise of the queue, which an earlier
\* request shares
C40_Witness ==
    /\ last.op = "upgradeInitialState"
    /\ Starts = {}
    /\ Emits("upgradeInitialState") # {}
    /\ router.queue.promise = last.ret
    /\ Len(promises[last.ret].callers) > 1
    /\ promises[last.ret].callers[1].api = "queueEnterStates"

====
